---- MODULE Spec2Model ----
(***************************************************************************)
(* Model of the development-server supervisor and status notifier of       *)
(* vue-cli-plugin-apollo (index.js).                                       *)
(*                                                                         *)
(* Every process that loads index.js has its own module state (ipc,        *)
(* ipcTimer): the process running `apollo:watch` (process WATCH) and each  *)
(* child process running `apollo:run`.  The child process runner, the file *)
(* watcher and its debounce live in the nodemon library; they are modelled *)
(* from the design document (sections 4.1 to 4.3), the handlers registered *)
(* on them are modelled from index.js.                                     *)
(***************************************************************************)
EXTENDS Integers, Sequences, FiniteSets, TLC

\* ---------------------------------------------------------------- bounds
MaxChildren == 2      \* child process slots
MaxBurst == 2         \* file-change events held in one debounce window
MaxSpawns == 3        \* the spawn counter saturates here

\* ------------------------------------------------------- program constants
IPC_TIMEOUT == 3000   \* setTimeout(..., 3000) in sendIpcMessage
RUN_DELAY == 300      \* setTimeout(run, 300) in apollo:run
NAMESPACE == "org.akryum.vue-apollo"
DEFAULT_PORT == "4000"
DEFAULT_GRAPHQL_PATH == "/graphql"
COMMAND_OPTIONS == <<"--mock", "--enable-engine", "--delay", "--port">>

NULL == 0             \* ipc = null / ipcTimer = undefined
WATCH == 0            \* the process running apollo:watch
ChildIds == 1..MaxChildren
Procs == {WATCH} \cup ChildIds
JsNull == [null |-> TRUE]     \* the JavaScript value null inside a message

VARIABLES
  IpcMessenger,   \* TRUE iff @vue/cli-shared-utils exports an IpcMessenger
  args,           \* args of the apollo:watch command
  env,            \* process.env of the child: VUE_APP_GRAPHQL_PORT / _PATH
  nt,             \* per process: module state of index.js and its timers
  state,          \* SupervisorState
  proc,           \* per child slot: position of the apollo:run command
  terminating,    \* children the supervisor has asked to terminate
  burst,          \* file-change events in the open debounce window
  watchPc,        \* position of the apollo:watch command
  resolved,       \* the promise returned by apollo:watch is resolved
  spawns,         \* children spawned so far (saturating)
  changed,        \* a file change has occurred
  stopMid,        \* the stop signal arrived while a restart was in flight
  fromCrash,      \* the restart in progress or last completed began in Crashed
  collapsed,      \* file-change events collapsed into the last restart trigger
  rejected,       \* the promise returned by apollo:watch is rejected
  hasYarn,        \* hasYarn() of @vue/cli-shared-utils
  pluginOptions,  \* options.pluginOptions.apollo
  nodemonConfig,  \* the settings apollo:watch passed to nodemon
  observe,        \* the specification records the watcher's events
  lastChange,     \* the file of the watcher's last event, when recorded
  log,            \* the last line written by console.log in apollo:watch
  standalone      \* apollo:run was launched directly, not by apollo:watch

vars == <<IpcMessenger, args, env, nt, state, proc, terminating, burst,
          watchPc, resolved, spawns, changed, stopMid, fromCrash, collapsed,
          rejected, hasYarn, pluginOptions, nodemonConfig, observe,
          lastChange, log, standalone>>

\* what the environment fixes before the command runs
inputs == <<hasYarn, pluginOptions, observe, standalone>>

\* ------------------------------------------------------------- notifier
\* Module state of a process that has just loaded index.js.
FreshNotifier ==
  [ipc |-> NULL, ipcTimer |-> NULL, timers |-> {}, connected |-> {},
   sent |-> {}, sentConnected |-> TRUE, threw |-> FALSE, sinceSend |-> 0,
   lateReset |-> FALSE, timerClosed |-> FALSE, reopened |-> FALSE,
   batch |-> 0, first |-> {}, age |-> -1, portEnv |-> ""]

\* a handler that reports a status begins: nothing sent yet in this turn
Turn(n) == [n EXCEPT !.batch = 0]

Min(S) == CHOOSE x \in S : \A y \in S : x <= y

\* new IpcMessenger(): a handle distinct from every open connection
NewHandle(n) ==
  Min({h \in 1..(Cardinality(n.connected) + 1) : h \notin n.connected})

\* setTimeout returns an id distinct from every pending timer
NewTimerId(n) ==
  LET used == {t.id : t \in n.timers} \cup {n.ipcTimer}
  IN Min({i \in 1..(Cardinality(used) + 1) : i \notin used})

clearTimeout(timers, id) == {t \in timers : t.id # id}

setTimeout(timers, id, cb, ms) == timers \cup {[id |-> id, cb |-> cb, left |-> ms]}

\* ipc.send({ 'org.akryum.vue-apollo': message })
Wire(message) == (NAMESPACE :> message)

\* variant: connects on every call, whether or not ipc is set
ipcOpen_EveryCall(n) ==
  IF IpcMessenger
    THEN [n EXCEPT !.ipc = NewHandle(n),
                   !.connected = @ \cup {NewHandle(n)},
                   !.reopened = n.timerClosed,
                   !.lateReset = FALSE]
    ELSE n

\* variant: constructs the messenger without testing that it exists
ipcOpen_NoTransportTest(n) ==
  IF n.ipc = NULL
    THEN [n EXCEPT !.ipc = NewHandle(n),
                   !.connected = @ \cup {NewHandle(n)},
                   !.reopened = n.timerClosed,
                   !.lateReset = FALSE]
    ELSE n

\* if (!ipc && IpcMessenger) { ipc = new IpcMessenger(); ipc.connect() }
ipcOpen(n) ==
  IF n.ipc = NULL /\ IpcMessenger
    THEN [n EXCEPT !.ipc = NewHandle(n),
                   !.connected = @ \cup {NewHandle(n)},
                   !.reopened = n.timerClosed,
                   !.lateReset = FALSE]
    ELSE n

\* variant: arms a new idle timer without clearing the pending one
ipcSend_NoClear(n, message) ==
  IF n.ipc # NULL
    THEN LET id == NewTimerId(n)
         IN [n EXCEPT !.sent = {Wire(message)},
                      !.batch = @ + 1,
                      !.first = IF @ = {} THEN {Wire(message)} ELSE @,
                      !.sentConnected = (n.ipc \in n.connected),
                      !.lateReset = @ \/ (n.sinceSend = IPC_TIMEOUT - 1),
                      !.sinceSend = 0,
                      !.timers = setTimeout(n.timers, id, "ipc", IPC_TIMEOUT),
                      !.ipcTimer = id]
    ELSE n

\* if (ipc) { ipc.send(...); clearTimeout(ipcTimer); ipcTimer = setTimeout(...) }
ipcSend(n, message) ==
  IF n.ipc # NULL
    THEN LET cleared == clearTimeout(n.timers, n.ipcTimer)
             id == NewTimerId([n EXCEPT !.timers = cleared])
         IN [n EXCEPT !.sent = {Wire(message)},
                      !.batch = @ + 1,
                      !.first = IF @ = {} THEN {Wire(message)} ELSE @,
                      !.sentConnected = (n.ipc \in n.connected),
                      !.lateReset = @ \/ (n.sinceSend = IPC_TIMEOUT - 1),
                      !.sinceSend = 0,
                      !.timers = setTimeout(cleared, id, "ipc", IPC_TIMEOUT),
                      !.ipcTimer = id]
    ELSE n

sendIpcMessage(n, message) == ipcSend(ipcOpen(n), message)

\* variant: disconnects but leaves ipc set
ipcIdleClose_KeepChannel(n) ==
  IF n.ipc = NULL
    THEN [n EXCEPT !.threw = TRUE]
    ELSE [n EXCEPT !.connected = @ \ {n.ipc},
                   !.timerClosed = TRUE,
                   !.sinceSend = 0]

\* the idle timer's callback: ipc.disconnect(); ipc = null
\* (on a null ipc the call throws a TypeError)
ipcIdleClose(n) ==
  IF n.ipc = NULL
    THEN [n EXCEPT !.threw = TRUE]
    ELSE [n EXCEPT !.connected = @ \ {n.ipc},
                   !.ipc = NULL,
                   !.timerClosed = TRUE,
                   !.sinceSend = 0]

\* ------------------------------------------------------ JavaScript values
JsTrue == [bool |-> TRUE]
JsFalse == [bool |-> FALSE]
JsStr(s) == [str |-> s]
JsNum(n) == [num |-> n]
Truthy(v) == v = JsTrue \/ (v \notin {JsTrue, JsFalse, JsStr(""), JsNum(0)})

Digit(d) ==
  CASE d = 0 -> "0" [] d = 1 -> "1" [] d = 2 -> "2" [] d = 3 -> "3"
    [] d = 4 -> "4" [] d = 5 -> "5" [] d = 6 -> "6" [] d = 7 -> "7"
    [] d = 8 -> "8" [] d = 9 -> "9"

RECURSIVE NumToStr(_)
NumToStr(n) == IF n < 10 THEN Digit(n) ELSE NumToStr(n \div 10) \o Digit(n % 10)

\* `${v}`
ToStr(v) ==
  IF DOMAIN v = {"bool"} THEN (IF v.bool THEN "true" ELSE "false")
  ELSE IF DOMAIN v = {"num"} THEN NumToStr(v.num)
  ELSE v.str

EmptyMap == [k \in {} |-> JsTrue]
\* the launch settings explored: all defaults, and flags, environment and
\* server folder all given
LaunchConfigs ==
  {[args |-> EmptyMap, env |-> EmptyMap, pluginOptions |-> EmptyMap],
   [args |-> ("mock" :> JsTrue) @@ ("port" :> JsNum(5000)),
    env |-> ("VUE_APP_GRAPHQL_PORT" :> JsStr("5001")) @@
            ("VUE_APP_GRAPHQL_PATH" :> JsStr("/api")),
    pluginOptions |-> ("serverFolder" :> <<".", "graphql", "server">>)]}

\* key.substr(2)
ShortKey(key) ==
  CASE key = "--mock" -> "mock"
    [] key = "--enable-engine" -> "enable-engine"
    [] key = "--delay" -> "delay"
    [] key = "--port" -> "port"

\* for (const key in COMMAND_OPTIONS) { ... flatArgs.push(key) ... }
\* variant: pushes the value of every flag, true included
RECURSIVE flatArgsFrom_PushAll(_, _)
flatArgsFrom_PushAll(a, i) ==
  IF i > Len(COMMAND_OPTIONS) THEN <<>>
  ELSE LET key == COMMAND_OPTIONS[i]
           shortKey == ShortKey(key)
           here == IF shortKey \in DOMAIN a
                     THEN <<JsStr(key), a[shortKey]>>
                     ELSE <<>>
       IN here \o flatArgsFrom_PushAll(a, i + 1)

RECURSIVE flatArgsFrom(_, _)
flatArgsFrom(a, i) ==
  IF i > Len(COMMAND_OPTIONS) THEN <<>>
  ELSE LET key == COMMAND_OPTIONS[i]
           shortKey == ShortKey(key)
           here == IF shortKey \in DOMAIN a
                     THEN IF a[shortKey] # JsTrue
                            THEN <<JsStr(key), a[shortKey]>>
                            ELSE <<JsStr(key)>>
                     ELSE <<>>
       IN here \o flatArgsFrom(a, i + 1)

flatArgs(a) == flatArgsFrom(a, 1)

\* flatArgs.join(' '), as the words of the command line
Join(flat) == [i \in 1..Len(flat) |-> ToStr(flat[i])]

\* const cmd = hasYarn() ? 'yarn' : 'npm'
Cmd == IF hasYarn THEN "yarn" ELSE "npm"

\* `${cmd} run apollo:run --delay ${flatArgs.join(' ')}`
Exec(a) == <<Cmd, "run", "apollo:run", "--delay">> \o Join(flatArgs(a))

\* paths are sequences of segments
DEFAULT_SERVER_FOLDER == <<".", "apollo-server">>
Context == <<"project">>
WATCH_EXT == {"js", "mjs", "json", "graphql", "gql"}

\* defaultValue(value, fallback) of ./utils
defaultValue(o, key, fallback) == IF key \in DOMAIN o THEN o[key] ELSE fallback

\* defaultValue(apolloOptions.serverFolder, DEFAULT_SERVER_FOLDER)
BaseFolder == defaultValue(pluginOptions, "serverFolder", DEFAULT_SERVER_FOLDER)

\* api.resolve(p): absolute and normalised
Resolve(p) == Context \o SelectSeq(p, LAMBDA seg : seg # ".")

\* path.join(p, name)
PathJoin(p, name) == p \o <<name>>

NoConfig == [exec |-> <<>>, watch |-> {}, ignore |-> {}, ext |-> {}]

\* variant: the ignore path is not joined to the server folder
NodemonConfig_IgnoreLive ==
  [exec |-> Exec(args),
   watch |-> {Resolve(BaseFolder)},
   ignore |-> {Resolve(<<".", "live">>)},
   ext |-> WATCH_EXT]

\* the object passed to nodemon(...)
NodemonConfig ==
  [exec |-> Exec(args),
   watch |-> {Resolve(BaseFolder)},
   ignore |-> {Resolve(PathJoin(BaseFolder, "live"))},
   ext |-> WATCH_EXT]

\* the environment before the argument
Port_EnvFirst(a, e) ==
  IF "VUE_APP_GRAPHQL_PORT" \in DOMAIN e /\ Truthy(e["VUE_APP_GRAPHQL_PORT"])
    THEN ToStr(e["VUE_APP_GRAPHQL_PORT"])
  ELSE IF "port" \in DOMAIN a /\ Truthy(a["port"]) THEN ToStr(a["port"])
  ELSE DEFAULT_PORT

\* args.port || process.env.VUE_APP_GRAPHQL_PORT || 4000
Port(a, e) ==
  IF "port" \in DOMAIN a /\ Truthy(a["port"]) THEN ToStr(a["port"])
  ELSE IF "VUE_APP_GRAPHQL_PORT" \in DOMAIN e /\ Truthy(e["VUE_APP_GRAPHQL_PORT"])
    THEN ToStr(e["VUE_APP_GRAPHQL_PORT"])
  ELSE DEFAULT_PORT

\* process.env.VUE_APP_GRAPHQL_PATH || '/graphql'
GraphqlPath(e) ==
  IF "VUE_APP_GRAPHQL_PATH" \in DOMAIN e /\ Truthy(e["VUE_APP_GRAPHQL_PATH"])
    THEN ToStr(e["VUE_APP_GRAPHQL_PATH"])
  ELSE DEFAULT_GRAPHQL_PATH

\* `http://localhost:${port}${graphqlPath}`
PlaygroundUrl(a, e) == <<"http://localhost:", Port(a, e), GraphqlPath(e)>>

\* ------------------------------------------------------ status messages
WatchingMessage == [error |-> FALSE]
RestartMessage == [error |-> FALSE]
CrashMessage == [urls |-> JsNull, error |-> TRUE]
ReadyMessage(a, e) == [urls |-> [playground |-> PlaygroundUrl(a, e)]]

\* ------------------------------------------------- supervisor (apollo:watch)
SupervisorStates == {"Idle", "Starting", "Running", "Restarting", "Crashed", "Stopped"}

Live == {c \in ChildIds : proc[c] # "none"}

Bump(n) == IF n < MaxSpawns THEN n + 1 ELSE n

\* ChildProcessRunner.start: the child process begins the apollo:run command
Spawned(c) == [proc EXCEPT ![c] = "spawned"]

\* variant: the replacement is spawned without waiting for the exit
CanSpawn_NoWait == TRUE

\* a replacement is spawned only when the previous child has fully exited
CanSpawn == Live = {}

\* nodemon({ exec, watch, ignore, ext }): spawn the child, arm the watcher
nodemonStart(c) ==
  /\ proc' = Spawned(c)
  /\ spawns' = Bump(spawns)
  /\ state' = "Starting"
  /\ UNCHANGED <<terminating, burst>>

\* variant: the handlers are registered but nodemon is never started
Start_NoNodemon ==
  /\ watchPc = "init"
  /\ state = "Idle"
  /\ state' = "Starting"
  /\ nt' = [nt EXCEPT ![WATCH] = sendIpcMessage(Turn(@), WatchingMessage)]
  /\ watchPc' = "watching"
  /\ UNCHANGED <<IpcMessenger, args, env, inputs, lastChange, log,
                 nodemonConfig, rejected,
                 proc, terminating, burst, resolved, spawns, changed,
                 stopMid, fromCrash, collapsed>>

\* variant: nodemon is started but no status is sent
Start_NoStatus ==
  /\ watchPc = "init"
  /\ state = "Idle"
  /\ \E c \in ChildIds : c = Min(ChildIds \ Live) /\ nodemonStart(c)
  /\ nodemonConfig' = NodemonConfig
  /\ watchPc' = "watching"
  /\ UNCHANGED <<IpcMessenger, args, env, inputs, lastChange, log, rejected, nt,
                 resolved, changed, stopMid, fromCrash, collapsed>>

\* apollo:watch: start nodemon, send { error: false }, register the handlers
Start ==
  /\ watchPc = "init"
  /\ state = "Idle"
  /\ \E c \in ChildIds : c = Min(ChildIds \ Live) /\ nodemonStart(c)
  /\ nt' = [nt EXCEPT ![WATCH] = sendIpcMessage(Turn(@), WatchingMessage)]
  /\ nodemonConfig' = NodemonConfig
  /\ watchPc' = "watching"
  /\ UNCHANGED <<IpcMessenger, args, env, inputs, lastChange, log, rejected,
                 resolved, changed,
                 stopMid, fromCrash, collapsed>>

\* console.log lines of apollo:watch
NoLine == [text |-> ""]
RESTARTING_LINE == [text |-> "GraphQL API is restarting..."]
WAITING_LINE == [text |-> "   Waiting for changes..."]
\* chalk.grey(...args)
Grey(data) == [grey |-> data]
OutputData == {"listening"}

\* variant: the restart handler only logs
OnRestart_Silent(n) == n

\* variant: the restart handler reports twice
OnRestart_Twice(n) ==
  sendIpcMessage(sendIpcMessage(n, RestartMessage), RestartMessage)

\* nodemon.on('restart'): sendIpcMessage({ error: false })
OnRestart(n) == sendIpcMessage(n, RestartMessage)

\* variant: the crash handler reports a non-error status
OnCrash_NoError(n) == sendIpcMessage(n, [urls |-> JsNull, error |-> FALSE])

\* nodemon.on('crash'): sendIpcMessage({ urls: null, error: true })
OnCrash(n) == sendIpcMessage(n, CrashMessage)

\* variant: the output handler reports a status
OnOutput_Notifies(n) == sendIpcMessage(n, [error |-> FALSE])

\* nodemon.on('stdout') / nodemon.on('stderr'): console.log only
OnOutput(n) == n

\* a file is a directory path and an extension
IsPrefix(p, q) == Len(p) <= Len(q) /\ SubSeq(q, 1, Len(p)) = p

NoFile == [dir |-> <<>>, ext |-> ""]

\* files that change during a run: under <serverFolder>/live, under the
\* server folder with and without a watched extension, outside of it
Files ==
  {[dir |-> Resolve(PathJoin(BaseFolder, "live")), ext |-> "json"],
   [dir |-> Resolve(BaseFolder), ext |-> "js"],
   [dir |-> Resolve(BaseFolder), ext |-> "md"],
   [dir |-> Resolve(<<".", "src">>), ext |-> "js"]}

\* FileWatcher: under a watch root, under no ignore path, watched extension
Watched(cfg, f) ==
  /\ \E r \in cfg.watch : IsPrefix(r, f.dir)
  /\ \A ig \in cfg.ignore : ~IsPrefix(ig, f.dir)
  /\ f.ext \in cfg.ext

\* FileWatcher: a change event of a watched file enters the debounce window,
\* any other change is dropped
FileChange(f) ==
  /\ state \notin {"Idle", "Stopped"}
  /\ burst < MaxBurst
  /\ IF Watched(nodemonConfig, f)
       THEN burst' = burst + 1 /\ changed' = TRUE
       ELSE UNCHANGED <<burst, changed>>
  /\ lastChange' = IF observe THEN f ELSE NoFile
  /\ UNCHANGED <<IpcMessenger, args, env, inputs, log, nodemonConfig,
                 rejected, nt,
                 state, proc, terminating, watchPc, resolved, spawns, stopMid,
                 fromCrash, collapsed>>

\* variant: the watcher delivers a trigger whatever the supervisor is doing
CanTrigger_Always == TRUE

\* the watcher delivers a trigger only when no restart is in flight
CanTrigger == state \in {"Starting", "Running", "Crashed"}

\* the debounce window closes: one onChange for the whole burst; the
\* supervisor terminates the current child and the restart event fires
Restart ==
  /\ burst > 0
  /\ CanTrigger
  /\ burst' = 0
  /\ state' = "Restarting"
  /\ terminating' = Live
  /\ nt' = [nt EXCEPT ![WATCH] = OnRestart(Turn(@))]
  /\ log' = RESTARTING_LINE
  /\ fromCrash' = (state = "Crashed")
  /\ collapsed' = burst
  /\ UNCHANGED <<IpcMessenger, args, env, inputs, lastChange, nodemonConfig,
                 rejected, proc, watchPc, resolved, spawns,
                 changed, stopMid>>

\* a terminated child has fully exited; its process state is gone
ChildExit(c) ==
  /\ c \in terminating
  /\ proc' = [proc EXCEPT ![c] = "none"]
  /\ terminating' = terminating \ {c}
  /\ nt' = [nt EXCEPT ![c] = FreshNotifier]
  /\ UNCHANGED <<IpcMessenger, args, env, inputs, lastChange, log,
                 nodemonConfig, rejected, state, burst, watchPc, resolved,
                 spawns, changed, stopMid,
                 fromCrash, collapsed>>

\* Restarting --spawned--> Running
Respawn ==
  /\ state = "Restarting"
  /\ CanSpawn
  /\ \E c \in ChildIds : c = Min(ChildIds \ Live) /\ proc' = Spawned(c)
  /\ spawns' = Bump(spawns)
  /\ state' = "Running"
  /\ UNCHANGED <<IpcMessenger, args, env, inputs, lastChange, log,
                 nodemonConfig, rejected, nt, terminating, burst, watchPc,
                 resolved, changed, stopMid,
                 fromCrash, collapsed>>

\* the child terminates without a supervisor-issued terminate: crash event
Crash(c) ==
  /\ state \in {"Starting", "Running"}
  /\ c \in Live \ terminating
  /\ proc' = [proc EXCEPT ![c] = "none"]
  /\ state' = "Crashed"
  /\ nt' = [nt EXCEPT ![c] = FreshNotifier, ![WATCH] = OnCrash(Turn(@))]
  /\ log' = WAITING_LINE
  /\ UNCHANGED <<IpcMessenger, args, env, inputs, lastChange, nodemonConfig,
                 rejected, terminating, burst, watchPc,
                 resolved, spawns, changed, stopMid,
                 fromCrash, collapsed>>

\* the child writes to stdout or stderr
Output(c, data) ==
  /\ watchPc = "watching"
  /\ c \in Live
  /\ nt' = [nt EXCEPT ![WATCH] = OnOutput(@)]
  /\ log' = Grey(data)
  /\ UNCHANGED <<IpcMessenger, args, env, inputs, lastChange, nodemonConfig,
                 rejected, state, proc, terminating, burst,
                 watchPc, resolved, spawns, changed, stopMid,
                 fromCrash, collapsed>>

\* Any state --explicitStop--> Stopped: terminate the child, tear down the watcher
Stop ==
  /\ state \notin {"Idle", "Stopped"}
  /\ state' = "Stopped"
  /\ terminating' = Live
  /\ burst' = 0
  /\ stopMid' = (state = "Restarting" /\ terminating # {})
  /\ UNCHANGED <<IpcMessenger, args, env, inputs, lastChange, log,
                 nodemonConfig, rejected, nt, proc, watchPc, resolved,
                 spawns, changed, fromCrash, collapsed>>

\* variant: the quit handler exits without resolving
OnQuit_NoResolve ==
  /\ resolved' = resolved
  /\ rejected' = rejected
  /\ watchPc' = "exited"
  /\ nt' = [nt EXCEPT ![WATCH] = FreshNotifier]

\* variant: the quit handler rejects the run
OnQuit_Reject ==
  /\ resolved' = resolved
  /\ rejected' = TRUE
  /\ watchPc' = "exited"
  /\ nt' = [nt EXCEPT ![WATCH] = FreshNotifier]

\* nodemon.on('quit'): resolve(); process.exit()
OnQuit ==
  /\ resolved' = TRUE
  /\ rejected' = rejected
  /\ watchPc' = "exited"
  /\ nt' = [nt EXCEPT ![WATCH] = FreshNotifier]

\* the quit event fires once the terminated child has exited
Quit ==
  /\ state = "Stopped"
  /\ watchPc = "watching"
  /\ Live = {}
  /\ OnQuit
  /\ UNCHANGED <<IpcMessenger, args, env, inputs, lastChange, log,
                 nodemonConfig, state, proc, terminating, burst,
                 spawns, changed, stopMid,
                 fromCrash, collapsed>>

\* ------------------------------------------------------ child (apollo:run)
\* exec: `${cmd} run apollo:run --delay ${flatArgs.join(' ')}`
ChildArgs(a) == ("delay" :> JsTrue) @@ a

\* args of the apollo:run command
RunArgs == IF standalone THEN args ELSE ChildArgs(args)

\* run(): server(opts, callback)
run(c) == [proc EXCEPT ![c] = "starting"]

\* run(): process.env.VUE_APP_GRAPHQL_PORT = port, in the process's own
\* environment
runEnv(n) == [n EXCEPT !.portEnv = Port(RunArgs, env)]

\* apollo:run: if (args.delay) setTimeout(run, 300) else run()
RunCommand(c) ==
  /\ proc[c] = "spawned"
  /\ IF "delay" \in DOMAIN RunArgs /\ Truthy(RunArgs["delay"])
       THEN /\ proc' = [proc EXCEPT ![c] = "delay"]
            /\ nt' = [nt EXCEPT ![c].timers =
                         setTimeout(@, NewTimerId(nt[c]), "run", RUN_DELAY),
                                ![c].age = 0]
       ELSE /\ proc' = run(c)
            /\ nt' = [nt EXCEPT ![c] = runEnv([@ EXCEPT !.age = 0])]
  /\ UNCHANGED <<IpcMessenger, args, env, inputs, lastChange, log,
                 nodemonConfig, rejected, state, terminating, burst, watchPc,
                 resolved, spawns, changed, stopMid,
                 fromCrash, collapsed>>

\* server(opts, () => sendIpcMessage({ urls: { playground } })): the server is up
ServerReady(c) ==
  /\ proc[c] = "starting"
  /\ proc' = [proc EXCEPT ![c] = "ready"]
  /\ nt' = [nt EXCEPT ![c] = sendIpcMessage(Turn(@), ReadyMessage(RunArgs, env))]
  /\ UNCHANGED <<IpcMessenger, args, env, inputs, lastChange, log,
                 nodemonConfig, rejected, state, terminating, burst, watchPc,
                 resolved, spawns, changed, stopMid,
                 fromCrash, collapsed>>

\* ------------------------------------------------------------------ time
TickSteps == {RUN_DELAY, IPC_TIMEOUT - 1 - RUN_DELAY, IPC_TIMEOUT}

Elapse(n, d) ==
  [n EXCEPT !.timers = {[t EXCEPT !.left = @ - d] : t \in @},
            !.sinceSend = IF n.ipc = NULL THEN 0
                          ELSE IF @ + d > IPC_TIMEOUT THEN IPC_TIMEOUT + 1
                          ELSE @ + d,
            !.age = IF @ < 0 THEN @
                    ELSE IF @ + d > RUN_DELAY THEN RUN_DELAY ELSE @ + d]

\* time passes; a pending timer fires no later than its delay
Tick(d) ==
  /\ \A p \in Procs : \A t \in nt[p].timers : t.left >= d
  /\ \E p \in Procs : nt[p].timers # {} \/ nt[p].ipc # NULL
  /\ nt' = [p \in Procs |-> Elapse(nt[p], d)]
  /\ UNCHANGED <<IpcMessenger, args, env, inputs, lastChange, log,
                 nodemonConfig, rejected, state, proc, terminating, burst,
                 watchPc, resolved, spawns, changed, stopMid,
                 fromCrash, collapsed>>

\* the idle timer of process p fires
IdleTimerFire(p) ==
  /\ \E t \in nt[p].timers :
       /\ t.cb = "ipc"
       /\ t.left = 0
       /\ nt' = [nt EXCEPT ![p] = ipcIdleClose([@ EXCEPT !.timers = @ \ {t}])]
  /\ UNCHANGED <<IpcMessenger, args, env, inputs, lastChange, log,
                 nodemonConfig, rejected, state, proc, terminating, burst,
                 watchPc, resolved, spawns, changed, stopMid,
                 fromCrash, collapsed>>

\* the delay timer of child c fires: run()
RunTimerFire(c) ==
  /\ \E t \in nt[c].timers :
       /\ t.cb = "run"
       /\ t.left = 0
       /\ nt' = [nt EXCEPT ![c] = runEnv([@ EXCEPT !.timers = @ \ {t}])]
  /\ proc' = run(c)
  /\ UNCHANGED <<IpcMessenger, args, env, inputs, lastChange, log,
                 nodemonConfig, rejected, state, terminating, burst, watchPc,
                 resolved, spawns, changed, stopMid,
                 fromCrash, collapsed>>

\* ------------------------------------------------------------ specification
\* nothing has run yet
NotStarted ==
  /\ nt = [p \in Procs |-> FreshNotifier]
  /\ state = "Idle"
  /\ proc = [c \in ChildIds |-> "none"]
  /\ terminating = {}
  /\ burst = 0
  /\ watchPc = "init"
  /\ resolved = FALSE
  /\ rejected = FALSE
  /\ spawns = 0
  /\ changed = FALSE
  /\ stopMid = FALSE
  /\ fromCrash = FALSE
  /\ collapsed = 0
  /\ nodemonConfig = NoConfig
  /\ lastChange = NoFile
  /\ log = NoLine

Init ==
  /\ IpcMessenger \in BOOLEAN
  /\ \E cfg \in LaunchConfigs :
       args = cfg.args /\ env = cfg.env /\ pluginOptions = cfg.pluginOptions
  /\ hasYarn = FALSE
  /\ observe = FALSE
  /\ standalone = FALSE
  /\ NotStarted

Next ==
  \/ Start
  \/ \E f \in Files : FileChange(f)
  \/ Restart
  \/ \E c \in ChildIds : ChildExit(c)
  \/ Respawn
  \/ \E c \in ChildIds : Crash(c)
  \/ \E c \in ChildIds, data \in OutputData : Output(c, data)
  \/ Stop
  \/ Quit
  \/ \E c \in ChildIds : RunCommand(c)
  \/ \E c \in ChildIds : ServerReady(c)
  \/ \E d \in TickSteps : Tick(d)
  \/ \E p \in Procs : IdleTimerFire(p)
  \/ \E c \in ChildIds : RunTimerFire(c)

Spec == Init /\ [][Next]_vars

TypeOK ==
  /\ IpcMessenger \in BOOLEAN
  /\ state \in SupervisorStates
  /\ proc \in [ChildIds -> {"none", "spawned", "delay", "starting", "ready"}]
  /\ terminating \subseteq ChildIds
  /\ burst \in 0..MaxBurst
  /\ watchPc \in {"init", "watching", "exited"}
  /\ spawns \in 0..MaxSpawns

\* ------------------------------------------------------------ fairness
\* The event loop delivers every pending event: a closed debounce window,
\* the exit of a terminated child, the spawn of the replacement, quit.
FairSpec ==
  /\ Spec
  /\ WF_vars(Restart)
  /\ WF_vars(Respawn)
  /\ WF_vars(Quit)
  /\ \A c \in ChildIds : WF_vars(ChildExit(c))

\* ------------------------------------------------------------ step shapes
\* p's process exists after the step
AliveAfter(p) == IF p = WATCH THEN watchPc' # "exited" ELSE proc'[p] # "none"

\* the apollo:watch process calls sendIpcMessage in this step
WatchNotifies ==
  \/ state = "Idle" /\ state' = "Starting"
  \/ state # "Restarting" /\ state' = "Restarting"
  \/ state # "Crashed" /\ state' = "Crashed"

\* process p calls sendIpcMessage in this step
Notifies(p) ==
  IF p = WATCH THEN WatchNotifies
  ELSE proc[p] = "starting" /\ proc'[p] = "ready"

IdleTimers(n) == {t \in n.timers : t.cb = "ipc"}

\* ------------------------------------------------------------------ claims
\* C1: a set channel is never idle for more than 3000 ms (at 3000 ms its
\* idle timer is due), and the notifier closes the channel only when 3000 ms
\* have passed since the most recent send; the close disconnects and unsets.
C1_ChannelSetWithinTimeout ==
  \A p \in Procs :
    nt[p].ipc # NULL =>
      /\ nt[p].sinceSend <= IPC_TIMEOUT
      /\ \E t \in IdleTimers(nt[p]) : t.left = IPC_TIMEOUT - nt[p].sinceSend

C1_NoPrematureClose ==
  \A p \in Procs :
    (nt[p].ipc # NULL /\ nt'[p].ipc = NULL /\ AliveAfter(p)) =>
      /\ nt[p].sinceSend = IPC_TIMEOUT
      /\ nt'[p].connected = {}

C1_IdleClose == []C1_ChannelSetWithinTimeout /\ [][C1_NoPrematureClose]_vars

\* a channel whose timer was reset by a send at 2999 ms, later closed by the timer
C1_Witness ==
  \E p \in Procs : nt[p].ipc = NULL /\ nt[p].timerClosed /\ nt[p].lateReset

\* C2: a send with the channel unset opens a connection first, a send with
\* the channel set opens none; every message goes out on the connected
\* channel; at most one connection is open, so connects and disconnects
\* alternate.
C2_OneConnection ==
  \A p \in Procs :
    /\ nt[p].sentConnected
    /\ Cardinality(nt[p].connected) <= 1
    /\ nt[p].connected = (IF nt[p].ipc = NULL THEN {} ELSE {nt[p].ipc})

C2_OpenOnDemand ==
  \A p \in Procs :
    (Notifies(p) /\ IpcMessenger) =>
      /\ nt'[p].ipc # NULL
      /\ nt'[p].connected = {nt'[p].ipc}
      /\ nt'[p].sent # {}
      /\ nt[p].ipc # NULL =>
           (nt'[p].ipc = nt[p].ipc /\ nt'[p].connected = nt[p].connected)

C2_LazyOpen == []C2_OneConnection /\ [][C2_OpenOnDemand]_vars

\* a channel reopened after an idle close, on which a further message was sent
C2_Witness ==
  \E p \in Procs : nt[p].ipc # NULL /\ nt[p].reopened /\ nt[p].lateReset

\* C3: without a transport no channel is created, nothing is sent, no idle
\* timer is armed, and the handlers of apollo:watch run to their end.
C3_NotifierUntouched ==
  ~IpcMessenger =>
    \A p \in Procs :
      /\ nt[p].ipc = NULL
      /\ nt[p].ipcTimer = NULL
      /\ nt[p].connected = {}
      /\ nt[p].sent = {}
      /\ IdleTimers(nt[p]) = {}
      /\ nt[p].sentConnected
      /\ ~nt[p].threw

C3_HandlersComplete ==
  (~IpcMessenger /\ WatchNotifies) =>
    /\ watchPc' = "watching"
    /\ resolved' = resolved
    /\ nt'[WATCH] = nt[WATCH]

C3_TransportUnavailable ==
  []C3_NotifierUntouched /\ [][C3_HandlersComplete]_vars

\* without a transport the supervisor has started, restarted and seen a crash
C3_Witness ==
  ~IpcMessenger /\ state = "Crashed" /\ spawns >= 2 /\ watchPc = "watching"

\* C4: every message sent has the single key 'org.akryum.vue-apollo' and a
\* value that is { error: false }, { error: false, urls: { playground } }
\* or { error: true, urls: null }.
StatusShape(m) ==
  \/ m = [error |-> FALSE]
  \/ m = [urls |-> JsNull, error |-> TRUE]
  \/ /\ DOMAIN m = {"error", "urls"}
     /\ m.error = FALSE
     /\ DOMAIN m.urls = {"playground"}

C4_MessageShape ==
  \A p \in Procs : \A w \in nt[p].sent :
    DOMAIN w = {NAMESPACE} /\ StatusShape(w[NAMESPACE])

\* C5: at most one child process is live, and a child is spawned only when
\* no other child is live (the previous one has fully exited).
C5_AtMostOneChild == Cardinality(Live) <= 1

C5_SpawnAfterExit ==
  \A c \in ChildIds : (proc[c] = "none" /\ proc'[c] # "none") => Live = {}

C5_SingleChild == []C5_AtMostOneChild /\ [][C5_SpawnAfterExit]_vars

\* a replacement child runs after its predecessor has exited
C5_Witness ==
  state = "Running" /\ spawns >= 2 /\ Cardinality(Live) = 1 /\ terminating = {}

\* C6: starting the supervisor spawns exactly one child, in the start step
\* itself, and no further child is spawned before a file change.
C6_OneBeforeChange ==
  /\ state = "Idle" => (spawns = 0 /\ Live = {})
  /\ (state # "Idle" /\ ~changed) => spawns = 1

C6_SpawnAtStart ==
  (state = "Idle" /\ state' # "Idle") =>
    /\ spawns' = 1
    /\ Cardinality({c \in ChildIds : proc'[c] # "none"}) = 1
    /\ ~changed'

C6_InitialSpawn == []C6_OneBeforeChange /\ [][C6_SpawnAtStart]_vars

\* started with flags, one child spawned, no file change yet
C6_Witness ==
  state = "Starting" /\ spawns = 1 /\ ~changed /\ Cardinality(Live) = 1
    /\ args # EmptyMap

\* C7: an exit of a child that the supervisor did not terminate sends
\* { error: true, urls: null }, leaves the run pending and the supervisor
\* watching; the exit of a terminated child sends nothing, and only a crash
\* makes the crash status the last message.
CrashStep(c) == c \in Live \ terminating /\ proc'[c] = "none"

IntentionalExit(c) == c \in terminating /\ proc'[c] = "none"

C7_CrashStatus ==
  /\ \A c \in ChildIds :
       /\ CrashStep(c) =>
            /\ state' = "Crashed"
            /\ ~resolved'
            /\ watchPc' = "watching"
            /\ IpcMessenger =>
                 (nt'[WATCH].sent = {Wire(CrashMessage)} /\ nt'[WATCH].ipc # NULL)
       /\ IntentionalExit(c) => (nt'[WATCH] = nt[WATCH] /\ state' = state)
  /\ (nt'[WATCH].sent = {Wire(CrashMessage)} /\ nt[WATCH].sent # {Wire(CrashMessage)})
       => \E c \in ChildIds : CrashStep(c)

C7_CrashedKeepsWatching ==
  state = "Crashed" => (~resolved /\ watchPc = "watching" /\ Live = {})

C7_CrashReporting == []C7_CrashedKeepsWatching /\ [][C7_CrashStatus]_vars

\* the child crashed and the crash status is the last message sent
C7_Witness ==
  state = "Crashed" /\ nt[WATCH].sent = {Wire(CrashMessage)} /\ ~resolved

\* C8: in Crashed, a pending file change leads to a restart status and a new
\* child, unless the supervisor is stopped first, however many crashes
\* came before.
C8_RestartFromCrashed ==
  (state = "Crashed" /\ state' = "Restarting") =>
    /\ burst > 0
    /\ IpcMessenger =>
         (nt'[WATCH].sent = {Wire(RestartMessage)} /\ nt'[WATCH].ipc # NULL)

C8_CrashRecovery ==
  /\ [][C8_RestartFromCrashed]_vars
  /\ (state = "Crashed" /\ burst > 0) ~>
       (state = "Stopped" \/ (state = "Running" /\ fromCrash /\ Live # {}))

\* a child spawned by a restart out of Crashed, after repeated crashes
C8_Witness ==
  state = "Running" /\ fromCrash /\ Live # {} /\ spawns >= 3

\* C9: the file-change events of one debounce window produce one restart
\* trigger, and a trigger is never delivered while a restart is in flight.
RestartStep == burst > 0 /\ burst' = 0 /\ state' = "Restarting"

C9_OneTrigger ==
  RestartStep =>
    /\ state # "Restarting"
    /\ terminating = {}
    /\ collapsed' = burst

C9_OneRestartInFlight ==
  state = "Restarting" => (Cardinality(terminating) <= 1 /\ Live = terminating)

C9_Debounce == []C9_OneRestartInFlight /\ [][C9_OneTrigger]_vars

\* a burst of two events collapsed into the restart in flight, with newer
\* events held back by the watcher
C9_Witness ==
  state = "Restarting" /\ collapsed >= 2 /\ burst > 0 /\ terminating # {}

\* C10: a stop that arrives while a restart is terminating the old child
\* keeps that child terminating, spawns no child afterwards, and leads to a
\* resolved run with no child left.
C10_StopTerminates ==
  /\ (state = "Restarting" /\ state' = "Stopped") =>
       (terminating \subseteq terminating' /\ Live \subseteq terminating')
  /\ state = "Stopped" =>
       (spawns' = spawns /\ \A c \in ChildIds : proc[c] = "none" => proc'[c] = "none")

C10_NoChildLeft ==
  /\ stopMid => state = "Stopped"
  /\ resolved => Live = {}

C10_StopDuringRestart ==
  /\ []C10_NoChildLeft
  /\ [][C10_StopTerminates]_vars
  /\ stopMid ~> (resolved /\ Live = {})

\* stopped in the middle of a restart, the run has resolved with no child left
C10_Witness == stopMid /\ resolved /\ Live = {} /\ spawns = 1

\* C11: the run is resolved exactly when the quit handler has run; no other
\* step (start, restart, crash, output, timers) resolves it, and it is never
\* rejected.
C11_ResolvedIffQuit ==
  /\ resolved <=> watchPc = "exited"
  /\ resolved => state = "Stopped"
  /\ ~rejected

C11_OnlyQuitResolves ==
  /\ resolved' # resolved =>
       (~resolved /\ state = "Stopped" /\ watchPc = "watching" /\ Live = {})
  /\ (watchPc = "watching" /\ watchPc' = "exited") => resolved'

C11_RunCompletion == []C11_ResolvedIffQuit /\ [][C11_OnlyQuitResolves]_vars

\* the run has resolved after restarts and a crash
C11_Witness == resolved /\ ~rejected /\ spawns >= 2 /\ fromCrash

\* ------------------------------------------------ flag flattening on its own
\* every mapping of the four flags to true, false or a number, flattened by
\* the start of apollo:watch
FlagValues == {JsTrue, JsFalse, JsNum(5000)}
ShortKeys == {"mock", "enable-engine", "delay", "port"}
AllArgs == UNION {[K -> FlagValues] : K \in SUBSET ShortKeys}

FlatInit ==
  /\ IpcMessenger = TRUE
  /\ args \in AllArgs
  /\ env = EmptyMap
  /\ pluginOptions = EmptyMap
  /\ hasYarn \in BOOLEAN
  /\ observe = FALSE
  /\ standalone = FALSE
  /\ NotStarted

FlatNext == Start

FlatSpec == FlatInit /\ [][FlatNext]_vars

\* the words after `<cmd> run apollo:run --delay`
LaunchArgs == SubSeq(nodemonConfig.exec, 5, Len(nodemonConfig.exec))

IndexOf(key) == CHOOSE i \in 1..Len(COMMAND_OPTIONS) : COMMAND_OPTIONS[i] = key

IsFlag(w) == \E i \in 1..Len(COMMAND_OPTIONS) : COMMAND_OPTIONS[i] = w

\* C12: the flattened list holds exactly the flags whose short name is a key
\* of args, in the declared order; a flag with value true stands alone, any
\* other value follows its flag; { mock: true, port: 5000 } gives
\* --mock --port 5000.
C12_FlagFlattening ==
  nodemonConfig # NoConfig =>
    LET out == LaunchArgs
        At(key) == CHOOSE i \in 1..Len(out) : out[i] = key
    IN /\ \A k \in 1..Len(COMMAND_OPTIONS) :
            LET key == COMMAND_OPTIONS[k] IN
              /\ (ShortKey(key) \in DOMAIN args) <=> (\E i \in 1..Len(out) : out[i] = key)
              /\ ShortKey(key) \in DOMAIN args =>
                   /\ Cardinality({i \in 1..Len(out) : out[i] = key}) = 1
                   /\ IF args[ShortKey(key)] = JsTrue
                        THEN At(key) = Len(out) \/ IsFlag(out[At(key) + 1])
                        ELSE /\ At(key) < Len(out)
                             /\ out[At(key) + 1] = ToStr(args[ShortKey(key)])
       /\ \A i, j \in 1..Len(out) :
            (i < j /\ IsFlag(out[i]) /\ IsFlag(out[j])) => IndexOf(out[i]) < IndexOf(out[j])
       /\ Len(out) = Cardinality(DOMAIN args)
                       + Cardinality({k \in DOMAIN args : args[k] # JsTrue})
       /\ args = ("mock" :> JsTrue) @@ ("port" :> JsNum(5000))
            => out = <<"--mock", "--port", "5000">>
       /\ SubSeq(nodemonConfig.exec, 1, 4) = <<Cmd, "run", "apollo:run", "--delay">>

\* { mock: true, port: 5000 } has been flattened
C12_Witness ==
  /\ args = ("mock" :> JsTrue) @@ ("port" :> JsNum(5000))
  /\ nodemonConfig # NoConfig
  /\ LaunchArgs = <<"--mock", "--port", "5000">>

\* ------------------------------------------------ the watcher under observation
WatchInit ==
  /\ IpcMessenger = TRUE
  /\ \E cfg \in LaunchConfigs :
       args = cfg.args /\ env = cfg.env /\ pluginOptions = cfg.pluginOptions
  /\ hasYarn = FALSE
  /\ observe = TRUE
  /\ standalone = FALSE
  /\ NotStarted

WatchSpec == WatchInit /\ [][Next]_vars

LiveFile == [dir |-> Resolve(PathJoin(BaseFolder, "live")), ext |-> "json"]

\* the watcher has seen a change event in this step
ChangeEvent == lastChange' # lastChange \/ burst' = burst + 1

\* C13: the ignore path lies under the watch root; a change under it (or of
\* any file the settings do not cover) starts nothing, a change of a watched
\* file adds one event to the debounce window, and a restart consumes the
\* whole window, so one change gives one restart.
C13_IgnoreUnderRoot ==
  /\ \A ig \in nodemonConfig.ignore : \E r \in nodemonConfig.watch : IsPrefix(r, ig)
  /\ state # "Idle" =>
       /\ nodemonConfig.watch = {Resolve(BaseFolder)}
       /\ nodemonConfig.ignore = {Resolve(BaseFolder) \o <<"live">>}
       /\ nodemonConfig.ext = {"js", "mjs", "json", "graphql", "gql"}

C13_Filter ==
  /\ ChangeEvent =>
       /\ UNCHANGED <<state, proc, terminating, nt, spawns, collapsed>>
       /\ burst' = burst + 1 <=>
            /\ IsPrefix(Resolve(BaseFolder), lastChange'.dir)
            /\ ~IsPrefix(Resolve(BaseFolder) \o <<"live">>, lastChange'.dir)
            /\ lastChange'.ext \in {"js", "mjs", "json", "graphql", "gql"}
       /\ burst' # burst + 1 => burst' = burst
  /\ (state # "Restarting" /\ state' = "Restarting") => (burst > 0 /\ burst' = 0)

C13_WatchFiltering == []C13_IgnoreUnderRoot /\ [][C13_Filter]_vars

\* one change of a watched file gave one restart; a later change under
\* <serverFolder>/live left the window empty
C13_Witness ==
  /\ lastChange = LiveFile
  /\ collapsed = 1
  /\ spawns = 2
  /\ state = "Running"
  /\ burst = 0

\* C14: a restart sends exactly one { error: false }, at a moment when the
\* replacement child does not exist yet (every live child is an old one being
\* terminated, and a new child starts with nothing sent); a crash status
\* always comes after a non-error status, never before the restart status.
C14_Announce ==
  /\ (state # "Restarting" /\ state' = "Restarting" /\ IpcMessenger) =>
       /\ nt'[WATCH].batch = 1
       /\ nt'[WATCH].sent = {Wire([error |-> FALSE])}
       /\ {c \in ChildIds : proc'[c] # "none"} = terminating'
  /\ \A c \in ChildIds :
       /\ (state = "Restarting" /\ proc[c] = "none" /\ proc'[c] # "none") =>
            (nt'[c].sent = {} /\ nt'[WATCH] = nt[WATCH])
       /\ (CrashStep(c) /\ IpcMessenger) =>
            /\ nt[WATCH].sent = {Wire([error |-> FALSE])}
            /\ nt'[WATCH].sent = {Wire(CrashMessage)}
            /\ nt'[WATCH].batch = 1

C14_NoStatusDuringRestart ==
  (state = "Restarting" /\ IpcMessenger) =>
    /\ nt[WATCH].sent = {Wire([error |-> FALSE])}
    /\ \A c \in Live : nt[c].sent # {} => c \in terminating

C14_RestartOrdering == []C14_NoStatusDuringRestart /\ [][C14_Announce]_vars

\* the replacement child crashed after the restart had been announced
C14_Witness ==
  /\ state = "Crashed"
  /\ spawns = 2
  /\ collapsed >= 1
  /\ nt[WATCH].sent = {Wire(CrashMessage)}
  /\ nt[WATCH].batch = 1

\* C15: the start sends exactly one { error: false }, after nodemon has been
\* started, and it is the first message of the apollo:watch process.
C15_FirstStatus ==
  (IpcMessenger /\ watchPc = "watching") =>
    /\ nt[WATCH].first = {Wire([error |-> FALSE])}
    /\ nt[WATCH].batch = 1
    /\ nodemonConfig # NoConfig

C15_StartAnnounces ==
  /\ (state = "Idle" /\ state' # "Idle" /\ IpcMessenger) =>
       /\ nt[WATCH].first = {}
       /\ nt[WATCH].sent = {}
       /\ nt'[WATCH].batch = 1
       /\ nt'[WATCH].sent = {Wire([error |-> FALSE])}
       /\ nt'[WATCH].first = nt'[WATCH].sent
       /\ nodemonConfig' # NoConfig
       /\ Cardinality({c \in ChildIds : proc'[c] # "none"}) = 1
  /\ (state # "Idle" /\ WatchNotifies /\ IpcMessenger) => nt[WATCH].first # {}

C15_InitialStatus == []C15_FirstStatus /\ [][C15_StartAnnounces]_vars

\* the watcher is armed, the first status is out and nothing else has happened
C15_Witness ==
  /\ state = "Starting"
  /\ nt[WATCH].first = {Wire(WatchingMessage)}
  /\ nt[WATCH].sent = nt[WATCH].first
  /\ nt[WATCH].batch = 1
  /\ ~changed

\* C16: a stdout or stderr event writes the data to the log and changes
\* nothing else: not the supervisor, the children, the run, the status
\* channel or its idle timer.
OutputStep == log' # log /\ \E data \in OutputData : log' = Grey(data)

C16_OnlyLogs ==
  OutputStep =>
    UNCHANGED <<nt, state, proc, terminating, burst, watchPc, resolved,
                rejected, spawns, changed, nodemonConfig>>

C16_OutputRelay == [][C16_OnlyLogs]_vars

\* output was relayed while the channel was open and its idle timer running
C16_Witness ==
  /\ \E data \in OutputData : log = Grey(data)
  /\ state = "Running"
  /\ nt[WATCH].ipc # NULL
  /\ nt[WATCH].sinceSend = IPC_TIMEOUT - 1
  /\ ~resolved

\* ------------------------------------------------ apollo:run launched directly
PORT_ARGS == {JsNum(5000), JsNum(0)}
PORT_ENVS == {JsStr("5001"), JsStr("")}
PATH_ENVS == {JsStr("/api"), JsStr("")}

\* a mapping with key k bound to one of the values, or without k
Maybe(k, values) == {EmptyMap} \cup {k :> v : v \in values}

DELAY_ARGS == {JsTrue, JsFalse}

RunArgsSet ==
  {d @@ q : d \in Maybe("delay", DELAY_ARGS), q \in Maybe("port", PORT_ARGS)}

RunEnvSet ==
  {q @@ g : q \in Maybe("VUE_APP_GRAPHQL_PORT", PORT_ENVS),
            g \in Maybe("VUE_APP_GRAPHQL_PATH", PATH_ENVS)}

\* the command is about to run in process 1; there is no apollo:watch
RunInit ==
  /\ IpcMessenger \in BOOLEAN
  /\ args \in RunArgsSet
  /\ env \in RunEnvSet
  /\ pluginOptions = EmptyMap
  /\ hasYarn = FALSE
  /\ observe = FALSE
  /\ standalone = TRUE
  /\ nt = [p \in Procs |-> FreshNotifier]
  /\ state = "Idle"
  /\ proc = [c \in ChildIds |-> IF c = 1 THEN "spawned" ELSE "none"]
  /\ terminating = {}
  /\ burst = 0
  /\ watchPc = "init"
  /\ resolved = FALSE
  /\ rejected = FALSE
  /\ spawns = 0
  /\ changed = FALSE
  /\ stopMid = FALSE
  /\ fromCrash = FALSE
  /\ collapsed = 0
  /\ nodemonConfig = NoConfig
  /\ lastChange = NoFile
  /\ log = NoLine

RunNext ==
  \/ RunCommand(1)
  \/ RunTimerFire(1)
  \/ ServerReady(1)
  \/ \E d \in TickSteps : Tick(d)
  \/ IdleTimerFire(1)

RunSpec == RunInit /\ [][RunNext]_vars

\* the port and the path as the specification words them: the argument "if
\* given", the environment value "if set"
StatedPort ==
  IF "port" \in DOMAIN RunArgs THEN ToStr(RunArgs["port"])
  ELSE IF "VUE_APP_GRAPHQL_PORT" \in DOMAIN env
    THEN ToStr(env["VUE_APP_GRAPHQL_PORT"])
  ELSE "4000"

StatedPath ==
  IF "VUE_APP_GRAPHQL_PATH" \in DOMAIN env
    THEN ToStr(env["VUE_APP_GRAPHQL_PATH"])
  ELSE "/graphql"

\* the delay flag is on
DelayFlag == "delay" \in DOMAIN RunArgs /\ RunArgs["delay"] = JsTrue

\* a value that is given and is neither 0, nor empty, nor false
Given(m, k) == k \in DOMAIN m /\ m[k] \notin {JsNum(0), JsStr(""), JsFalse}

AmendedPort ==
  IF Given(RunArgs, "port") THEN ToStr(RunArgs["port"])
  ELSE IF Given(env, "VUE_APP_GRAPHQL_PORT")
    THEN ToStr(env["VUE_APP_GRAPHQL_PORT"])
  ELSE "4000"

AmendedPath ==
  IF Given(env, "VUE_APP_GRAPHQL_PATH") THEN ToStr(env["VUE_APP_GRAPHQL_PATH"])
  ELSE "/graphql"

\* the child at c has reported nothing before its server was up, nothing
\* before the 300 ms delay has elapsed when it is delayed, and what it has
\* reported carries the URL http://localhost:<port><path>
ReadyReport(c, delayed, port, path) ==
  /\ nt[c].sent # {} =>
       /\ proc[c] = "ready"
       /\ delayed => nt[c].age >= RUN_DELAY
       /\ \A w \in nt[c].sent :
            /\ "urls" \in DOMAIN w[NAMESPACE]
            /\ w[NAMESPACE].urls.playground = <<"http://localhost:", port, path>>
  /\ proc[c] = "ready" /\ IpcMessenger => nt[c].sent # {}

\* C17 as stated: the child reports the URL only once its server is up, and
\* with the delay flag never before 300 ms; the URL is
\* http://localhost:<port><graphqlPath>, the port being the port argument if
\* given, else VUE_APP_GRAPHQL_PORT if set, else 4000, and the path being
\* VUE_APP_GRAPHQL_PATH if set, else /graphql.
C17_AsStated ==
  \A c \in ChildIds :
    ReadyReport(c, DelayFlag, StatedPort, StatedPath)

\* C17 amended: as above, but a port argument that is 0 or false, and an empty
\* environment value, count as not given.
C17_ServerReady ==
  \A c \in ChildIds :
    ReadyReport(c, DelayFlag, AmendedPort, AmendedPath)

\* the delayed child has reported the URL with the port of the environment,
\* its port argument being 0
C17_Witness ==
  /\ standalone
  /\ proc[1] = "ready"
  /\ nt[1].sent # {}
  /\ "delay" \in DOMAIN args /\ args["delay"] = JsTrue
  /\ nt[1].age = RUN_DELAY
  /\ "port" \in DOMAIN args /\ args["port"] = JsNum(0)
  /\ "VUE_APP_GRAPHQL_PORT" \in DOMAIN env
  /\ env["VUE_APP_GRAPHQL_PORT"] = JsStr("5001")
  /\ nt[1].portEnv = "5001"

\* C18: in every process the channel is set if and only if exactly one idle
\* timer is pending, that timer being the one ipcTimer names; there is never
\* more than one pending idle timer; no idle timer has fired with the channel
\* unset; the set channel is the one open connection, so that the timer
\* disconnects only a connected channel, once.
C18_ChannelTimer ==
  \A p \in Procs :
    LET n == nt[p]
    IN /\ Cardinality(IdleTimers(n)) <= 1
       /\ n.ipc # NULL <=> Cardinality(IdleTimers(n)) = 1
       /\ \A t \in IdleTimers(n) : t.id = n.ipcTimer
       /\ ~n.threw
       /\ n.connected = IF n.ipc = NULL THEN {} ELSE {n.ipc}

\* the idle timer of apollo:watch has fired and left channel and timer unset,
\* while a child holds its channel with one timer pending, 300 ms after its
\* report
C18_Witness ==
  /\ nt[WATCH].timerClosed
  /\ nt[WATCH].ipc = NULL
  /\ IdleTimers(nt[WATCH]) = {}
  /\ \E c \in ChildIds :
       /\ nt[c].ipc # NULL
       /\ Cardinality(IdleTimers(nt[c])) = 1
       /\ nt[c].sinceSend = RUN_DELAY
====
